---- MODULE Spec2Model ----
(***************************************************************************)
(* A model of scriptharness: the Action object, the helper that builds    *)
(* the action tuple, and the Script object with its write-once config     *)
(* slot, its action selection and its listener registry                   *)
(* (src/scriptharness/script.py), and the LogMethod decorator             *)
(* (src/scriptharness/log.py).                                            *)
(*                                                                         *)
(* One step of the model is one call of the public API, taken whole.      *)
(* `last` records what the most recent call was given and how it ended;   *)
(* `events` records, in order, every callback the most recent call        *)
(* invoked (listener callbacks and action functions).                     *)
(***************************************************************************)
EXTENDS Integers, Sequences, FiniteSets, TLC

VARIABLES
    globals,    \* module globals of script.py that Action.__init__ looks up
    phase,      \* "start", "actions" (tuple built), "script" (Script built), "failed"
    actions,    \* Script.actions: the tuple of Action objects
    listeners,  \* Script.listeners: timing -> list of (listener, action_names)
    config,     \* Script.config
    clock,      \* the value the next time.time() returns
    events,     \* callbacks invoked by the most recent call, in order
    last,       \* the most recent call: operation, arguments, outcome
    newAction,  \* the Action the most recent Action(...) call constructed
    decorator,  \* the LogMethod object and what its calls logged
    manager     \* MANAGER: its scripts by name and its script class

vars == <<globals, phase, actions, listeners, config, clock, events, last,
          newAction, decorator, manager>>

-----------------------------------------------------------------------------
(* Bounds of the model. *)

\* Most listener registrations accepted on one Script.
MaxListeners == 2
\* Most readings of time.time().
MaxClock == 4
\* Most keyword arguments of one LogMethod(...).
MaxKwargs == 3

-----------------------------------------------------------------------------
(* Module constants of script.py. *)

STATUSES == [success |-> 0, error |-> 1, fatal |-> -1]

VALID_LISTENER_TIMING ==
    <<"pre_run", "post_run", "pre_action", "post_action", "post_fatal">>

\* x in <tuple>
InTuple(x, tup) == \E i \in 1..Len(tup) : tup[i] = x

-----------------------------------------------------------------------------
(* Values the calls are given. *)

\* Action names, in the order all_actions lists them.
ActionNames == <<"A", "B", "C">>
Names == {ActionNames[i] : i \in 1..Len(ActionNames)}

\* all_actions arguments: the names in two orders, and two of them only.
ActionNamesRotated == <<"C", "A", "B">>
ActionNamesFewer == <<"B", "A">>
AllActionsChoices == {ActionNames, ActionNamesRotated, ActionNamesFewer}

\* What a call of a function with the config does: it returns a value (v1,
\* v2 or None) or raises ScriptHarnessError, ScriptHarnessFatal or another
\* exception.
Outcomes == {"returns_v1", "returns_v2", "returns_None",
             "raises_error", "raises_fatal", "raises_other"}

\* Functions: one per outcome, which does the same at every call, and one
\* whose outcome varies from call to call.
FunctionKinds == Outcomes \cup {"varies"}
OutcomesOf(function) == IF function = "varies" THEN Outcomes ELSE {function}

\* Values that are not callable: a non-empty string and the number 0.
NotCallables == {"a string", "zero"}

\* The module globals: the functions found under the action names and under
\* do_it and a_b_c, and LOGGER_NAME, which is a string.
GlobalNames == Names \cup {"do_it", "a_b_c", "LOGGER_NAME"}
GlobalsChoices ==
    { [n \in GlobalNames |->
         CASE n = "B" -> k
           [] n = "LOGGER_NAME" -> "a string"
           [] OTHER -> "returns_v1"] : k \in FunctionKinds }

\* Listener callbacks.  "f" and "g" are functions of a Python 3 program; "p"
\* is a callable that has no __qualname__ attribute (a functools.partial
\* object, an instance with __call__, or any function under Python 2).
Callbacks == {"f", "g", "p"}
HasQualname(listener) == listener \in {"f", "g"}

\* Timing arguments: the five valid ones and two that are not valid, one of
\* which contains the substring 'action'.
Timings == {"pre_run", "post_run", "pre_action", "post_action", "post_fatal",
            "mid_run", "mid_action"}

\* Python's test  'action' in timing  on the timing strings above.
ContainsAction(timing) == timing \in {"pre_action", "post_action", "mid_action"}

\* action_names arguments: None, an empty collection, a non-empty collection.
NoNames == [isNone |-> TRUE, names |-> {}]
NamesOf(S) == [isNone |-> FALSE, names |-> S]
EmptyNames == NamesOf({})
OnlyB == NamesOf({"B"})
ActionNamesChoices == {NoNames, EmptyNames, OnlyB}

\* Python's truth value of an action_names argument.
NamesTruthy(an) == ~an.isNone /\ an.names # {}

\* The Namespace parse_known_args returns: without an `actions` attribute,
\* with actions=None (the --actions option not passed), or with a list.
NoActionsAttr == [isNone |-> FALSE, names |-> {}, has |-> FALSE]
ActionsUnset == [isNone |-> TRUE, names |-> {}, has |-> TRUE]
ActionsList(S) == [isNone |-> FALSE, names |-> S, has |-> TRUE]
ParsedArgsChoices ==
    {NoActionsAttr, ActionsUnset} \cup {ActionsList(S) : S \in SUBSET Names}
NoParsedArgs == NoActionsAttr
OnlyAC == ActionsList({"A", "C"})

\* Config values: None, or a mapping given as its set of (key, value) items.
NoneConfig == [isNone |-> TRUE, items |-> {}]
Mapping(items) == [isNone |-> FALSE, items |-> items]
EmptyConfig == Mapping({})
VerboseConfig == Mapping({<<"verbose", "on">>})
QuietConfig == Mapping({<<"verbose", "off">>})
\* The mappings the config collaborator builds.
ConfigChoices == {EmptyConfig, VerboseConfig, QuietConfig}
\* The values a caller assigns to script.config.
AssignedChoices == ConfigChoices \cup {NoneConfig}

\* Python's truth value of a config value: None and the empty mapping are false.
ConfigTruthy(c) == ~c.isNone /\ c.items # {}

-----------------------------------------------------------------------------
(* The record of the most recent call. *)

Call(op, result) ==
    [function |-> "-", listener |-> "-", timing |-> "-", names |-> NoNames,
     op |-> op, result |-> result,
     parsed |-> NoParsedArgs, value |-> NoneConfig, index |-> 0,
     outcome |-> "-", all_actions |-> <<>>,
     name |-> "-", omitted |-> FALSE, enabled |-> FALSE,
     kwargs |-> <<>>, message |-> <<>>, args |-> "-", returned |-> "-",
     inner |-> "-", positional |-> FALSE, script |-> 0]

-----------------------------------------------------------------------------
(* Action *)

\* The characters of a name, for the names that have a hyphen or an
\* underscore; any other name is given as one piece.
NameChars(name) ==
    CASE name = "do-it" -> <<"d", "o", "-", "i", "t">>
      [] name = "a-b-c" -> <<"a", "-", "b", "-", "c">>
      [] name = "no-such" -> <<"n", "o", "-", "s", "u", "c", "h">>
      [] name = "do_it" -> <<"d", "o", "_", "i", "t">>
      [] OTHER -> <<name>>

RECURSIVE Join(_)
Join(chars) == IF chars = <<>> THEN "" ELSE Head(chars) \o Join(Tail(chars))

\* Mutant of ReplaceHyphens: the name is looked up as it is.
ReplaceHyphensNot(name) == Join(NameChars(name))

\* name.replace('-', '_'): every hyphen becomes an underscore.
ReplaceHyphens(name) ==
    Join([i \in 1..Len(NameChars(name)) |->
            IF NameChars(name)[i] = "-" THEN "_" ELSE NameChars(name)[i]])

\* Action.__init__: the function is the explicit one when that is truthy,
\* else the global called like the action with underscores for hyphens;
\* None when there is no such global.
NoFunction == "None"
Falsy(function) == function \in {NoFunction, "zero"}
ResolveFunction(name, function, g) ==
    IF ~Falsy(function) THEN function
    ELSE IF ReplaceHyphens(name) \in DOMAIN g THEN g[ReplaceHyphens(name)]
    ELSE NoFunction

Callable(function) == function \in FunctionKinds

\* A Python dict is given as the mapping of the keys it holds.
EmptyMapping == [k \in {} |-> 0]
Put(d, key, value) ==
    [k \in DOMAIN d \cup {key} |-> IF k = key THEN value ELSE d[k]]

\* The Action object __init__ leaves: history is {'timestamps': {}}, given
\* here as the mapping of the keys present (start_time and end_time are the
\* keys of history['timestamps']).
NewAction(name, function, enabled) ==
    [function |-> function, name |-> name, enabled |-> enabled,
     history |-> EmptyMapping]

\* No Action object.
NoAction == NewAction("-", NoFunction, FALSE)

\* Action(name, function, enabled): ScriptHarnessException, and no object,
\* when the function resolved is not callable.
ActionInitResult(name, function, enabled, g) ==
    IF Callable(ResolveFunction(name, function, g))
    THEN [result |-> "ok",
          action |-> NewAction(name, ResolveFunction(name, function, g), enabled)]
    ELSE [result |-> "ScriptHarnessException", action |-> NoAction]

\* The names and functions Action(...) is called with directly.
ConstructNames == {"A", "B", "do-it", "do_it", "a-b-c", "no-such", "LOGGER_NAME"}
ExplicitFunctions == {NoFunction, "returns_v2", "raises_error"} \cup NotCallables
DefaultEnabled == FALSE

\* Action(name, function=None, enabled=False), with enabled left out when
\* `omitted`.
ActionInit(name, function, omitted, enabled) ==
    /\ ~(omitted /\ enabled)
    /\ LET r == ActionInitResult(name, function,
                                 IF omitted THEN DefaultEnabled ELSE enabled,
                                 globals)
       IN /\ newAction' = r.action
          /\ last' = [Call("Action.__init__", r.result)
                        EXCEPT !.name = name, !.function = function,
                               !.omitted = omitted, !.enabled = enabled]
    /\ events' = <<>>
    /\ UNCHANGED <<globals, manager, decorator, phase, actions, listeners, config, clock>>

\* get_actions: one Action per (name, enabled) pair, in order; fails when an
\* Action cannot be constructed.
GetActionsResult(pairs, g) ==
    IF \E i \in 1..Len(pairs) : ~Callable(ResolveFunction(pairs[i][1], NoFunction, g))
    THEN [actions |-> <<>>, result |-> "ScriptHarnessException"]
    ELSE [actions |-> [i \in 1..Len(pairs) |->
                         NewAction(pairs[i][1],
                                   ResolveFunction(pairs[i][1], NoFunction, g),
                                   pairs[i][2])],
          result |-> "ok"]

\* Mutant of PairsFromLists: the pairs are in the reverse order.
PairsFromListsReversed(all_actions, default_actions) ==
    [i \in 1..Len(all_actions) |->
        <<all_actions[Len(all_actions) + 1 - i],
          all_actions[Len(all_actions) + 1 - i] \in default_actions>>]

\* get_actions_from_lists: default_actions must be a subset of all_actions;
\* the (name, enabled) pairs are in the order of all_actions.
PairsFromLists(all_actions, default_actions) ==
    [i \in 1..Len(all_actions) |->
        <<all_actions[i], all_actions[i] \in default_actions>>]

GetActionsFromListsResult(all_actions, default_actions, g) ==
    IF ~(default_actions \subseteq {all_actions[i] : i \in 1..Len(all_actions)})
    THEN [actions |-> <<>>, result |-> "ScriptHarnessException"]
    ELSE GetActionsResult(PairsFromLists(all_actions, default_actions), g)

\* default_actions arguments: the subsets of the names, and one that names
\* an action all_actions does not have.
DefaultActionsChoices == (SUBSET Names) \cup {{"A", "Z"}}

GetActionsFromLists(all_actions, default_actions) ==
    /\ phase = "start"
    /\ LET r == GetActionsFromListsResult(all_actions, default_actions, globals)
       IN /\ actions' = r.actions
          /\ phase' = IF r.result = "ok" THEN "actions" ELSE "failed"
          /\ last' = [Call("get_actions_from_lists", r.result)
                        EXCEPT !.all_actions = all_actions]
    /\ events' = <<>>
    /\ UNCHANGED <<globals, manager, newAction, decorator, listeners, config, clock>>

-----------------------------------------------------------------------------
(* ScriptManager *)

\* Script classes: scriptharness.script.Script and a class of the caller's.
ScriptClasses == {"Script", "MyScript"}
ScriptNames == {"root", "other"}

\* ScriptManager.__init__: no scripts; new scripts are Script objects.
NewScriptManager == [all_scripts |-> EmptyMapping, script_class |-> "Script"]

\* The id of the next object constructed: objects are told apart by the
\* order of their construction.
NextId(m) == Cardinality(DOMAIN m.all_scripts) + 1

\* ScriptManager.get_script(name, *args, **kwargs): for an unknown name
\* script_class with these arguments is called, which gives an object
\* (`constructs`) or raises, and the object is stored under the name; the
\* object stored under the name is returned.
ManagerGetScriptResult(m, name, constructs) ==
    IF name \in DOMAIN m.all_scripts
    THEN [manager |-> m, result |-> "returned", script |-> m.all_scripts[name].id]
    ELSE IF ~constructs
    THEN [manager |-> m, result |-> "raised by script_class", script |-> 0]
    ELSE [manager |-> [m EXCEPT !.all_scripts =
                         Put(m.all_scripts, name,
                             [id |-> NextId(m), class |-> m.script_class])],
          result |-> "returned", script |-> NextId(m)]

\* scriptharness.get_script(name, *args, **kwargs) calls
\* MANAGER.get_script(name=name, *args, **kwargs): with positional arguments
\* after the name, the first of them is bound to `name` as well, which is a
\* TypeError.
GetScriptResult(m, name, positional, constructs) ==
    IF positional
    THEN [manager |-> m, result |-> "TypeError", script |-> 0]
    ELSE ManagerGetScriptResult(m, name, constructs)

ManagerGetScript(name, positional, constructs) ==
    /\ LET r == ManagerGetScriptResult(manager, name, constructs)
       IN /\ manager' = r.manager
          /\ last' = [Call("ScriptManager.get_script", r.result)
                        EXCEPT !.name = name, !.positional = positional,
                               !.script = r.script]
    /\ events' = <<>>
    /\ UNCHANGED <<globals, newAction, decorator, phase, actions, listeners,
                   config, clock>>

GetScript(name, positional, constructs) ==
    /\ LET r == GetScriptResult(manager, name, positional, constructs)
       IN /\ manager' = r.manager
          /\ last' = [Call("get_script", r.result)
                        EXCEPT !.name = name, !.positional = positional,
                               !.script = r.script]
    /\ events' = <<>>
    /\ UNCHANGED <<globals, newAction, decorator, phase, actions, listeners,
                   config, clock>>

\* set_script_class(script_class)
SetScriptClass(script_class) ==
    /\ manager' = [manager EXCEPT !.script_class = script_class]
    /\ last' = [Call("set_script_class", "returned") EXCEPT !.name = script_class]
    /\ events' = <<>>
    /\ UNCHANGED <<globals, newAction, decorator, phase, actions, listeners,
                   config, clock>>

-----------------------------------------------------------------------------
(* LogMethod *)

\* A message template is a sequence of pieces: literal text, a %-style
\* placeholder %(key)s or a format-style placeholder {key}.
Lit(text) == <<"lit", text>>
Percent(key) == <<"%", key>>
Brace(key) == <<"{}", key>>

\* The text of a piece and of a sequence of pieces.
PieceText(piece) ==
    CASE piece[1] = "%" -> "%(" \o piece[2] \o ")s"
      [] piece[1] = "{}" -> "{" \o piece[2] \o "}"
      [] OTHER -> piece[2]
Text(template) == Join([i \in 1..Len(template) |-> PieceText(template[i])])

\* template % repl_dict, as logging renders a message: the %-style
\* placeholders are replaced, anything else is text.
RenderPercent(template, repl_dict) ==
    Text([i \in 1..Len(template) |->
            IF template[i][1] = "%" THEN Lit(repl_dict[template[i][2]])
            ELSE template[i]])

\* template.format(repl_dict as keywords): the format-style placeholders are
\* replaced, anything else is text.
RenderFormat(template, repl_dict) ==
    Text([i \in 1..Len(template) |->
            IF template[i][1] = "{}" THEN Lit(repl_dict[template[i][2]])
            ELSE template[i]])

RecognizedKeys ==
    {"level", "error_level", "logger_name", "pre_msg", "post_success_msg",
     "post_failure_msg", "raise_on_error", "detect_error_cb"}

default_config ==
    [k \in RecognizedKeys |->
       CASE k = "level" -> "logging.INFO"
         [] k = "error_level" -> "logging.ERROR"
         [] k = "logger_name" -> <<Brace("func_name")>>
         [] k = "pre_msg" -> <<Percent("func_name"), Lit(" arguments were: "),
                               Percent("args"), Lit(" "), Percent("kwargs")>>
         [] k = "post_success_msg" -> <<Percent("func_name"), Lit(" completed.")>>
         [] k = "post_failure_msg" -> <<Percent("func_name"), Lit(" failed.")>>
         [] k = "raise_on_error" -> FALSE
         [] OTHER -> "None"]

\* detect_error_cb values: "cb_true" and "cb_false" are callbacks that give
\* that verdict.
ErrorCallbacks == {"cb_true", "cb_false"}
CbVerdict(cb) == cb = "cb_true"

\* kwargs.get(key), None when the key is not there.
KwGet(kwargs, key) ==
    IF \E i \in 1..Len(kwargs) : kwargs[i][1] = key
    THEN kwargs[CHOOSE i \in 1..Len(kwargs) : kwargs[i][1] = key][2]
    ELSE "None"

\* self.config after the loop over kwargs.items(): every key is written.
RECURSIVE Overridden(_, _)
Overridden(cfg, kwargs) ==
    IF kwargs = <<>> THEN cfg
    ELSE Overridden(Put(cfg, Head(kwargs)[1], Head(kwargs)[2]), Tail(kwargs))

UnknownKeys(kwargs) == SelectSeq(kwargs, LAMBDA kv : kv[1] \notin RecognizedKeys)

\* Mutant of UnknownMessages: only the first unknown key gets a message.
UnknownMessagesFirstOnly(kwargs) ==
    IF UnknownKeys(kwargs) = <<>> THEN <<>>
    ELSE <<"Unknown key " \o UnknownKeys(kwargs)[1][1] \o " in kwargs!">>

\* The messages the loop over kwargs.items() collects, in its order.
UnknownMessages(kwargs) ==
    [i \in 1..Len(UnknownKeys(kwargs)) |->
        "Unknown key " \o UnknownKeys(kwargs)[i][1] \o " in kwargs!"]

\* The lines of the exception message (joined with os.linesep); none when
\* construction succeeds.
InitMessages(kwargs) ==
    UnknownMessages(kwargs) \o
    (IF KwGet(kwargs, "detect_error_cb") # "None"
        /\ KwGet(kwargs, "detect_error_cb") \notin ErrorCallbacks
     THEN <<"detect_error_cb not callable!">> ELSE <<>>)

\* No LogMethod object, and the object __init__ leaves.
NoLogMethod ==
    [config |-> default_config, args |-> "None", made |-> FALSE,
     func |-> "None", return_value |-> "None", detected_errors |-> FALSE,
     log |-> <<>>]
NewLogMethod(kwargs) ==
    [NoLogMethod EXCEPT !.made = TRUE, !.config = Overridden(default_config, kwargs)]

\* A success template that shows the call: its arguments and return value.
ArgsPostSuccessMsg ==
    <<Percent("func_name"), Percent("args"), Lit(" returned "),
      Percent("return_value")>>

\* Failure templates given as post_failure_msg.
BracePostFailureMsg == <<Brace("func_name"), Lit(" went wrong.")>>
PlainPostFailureMsg == <<Lit("It went wrong.")>>

\* The key=value pairs of the kwargs of LogMethod(...), and the kwargs: at
\* most MaxKwargs pairs, no key twice, in each order items() may give.
KwargPairs ==
    {<<"foo", "x">>, <<"bar", "x">>,
     <<"detect_error_cb", "None">>, <<"detect_error_cb", "cb_true">>,
     <<"detect_error_cb", "cb_false">>, <<"detect_error_cb", "a string">>,
     <<"raise_on_error", TRUE>>,
     <<"post_failure_msg", BracePostFailureMsg>>,
     <<"post_failure_msg", PlainPostFailureMsg>>,
     <<"post_success_msg", ArgsPostSuccessMsg>>}
KwargsChoices ==
    {kw \in UNION {[1..n -> KwargPairs] : n \in 0..MaxKwargs} :
        \A i, j \in 1..Len(kw) : kw[i][1] = kw[j][1] => i = j}

\* LogMethod(kwargs)
LogMethodInit(kwargs) ==
    /\ decorator' = IF InitMessages(kwargs) = <<>> THEN NewLogMethod(kwargs)
                    ELSE NoLogMethod
    /\ last' = [Call("LogMethod.__init__",
                      IF InitMessages(kwargs) = <<>> THEN "ok"
                      ELSE "ScriptHarnessException")
                  EXCEPT !.kwargs = kwargs, !.message = InitMessages(kwargs)]
    /\ events' = <<>>
    /\ UNCHANGED <<globals, manager, newAction, phase, actions, listeners, config, clock>>

\* LogMethod.__call__(func): the decoration, which stores the function.
WrappedFunc == "func"
Decorate ==
    /\ decorator.made
    /\ decorator' = [decorator EXCEPT !.func = WrappedFunc]
    /\ last' = Call("LogMethod.__call__", "returned")
    /\ events' = <<>>
    /\ UNCHANGED <<globals, manager, newAction, phase, actions, listeners, config, clock>>

\* set_repl_dict, and the dict once the return value is in it.
ReplDict(d, args) ==
    [k \in {"func_name", "args", "kwargs"} |->
       CASE k = "func_name" -> d.func
         [] k = "args" -> args
         [] OTHER -> "{}"]

LoggerName(d, repl_dict) == RenderFormat(d.config["logger_name"], repl_dict)

\* pre_func: one line at `level`.
PreLine(d, repl_dict) ==
    [logger |-> LoggerName(d, repl_dict), level |-> d.config["level"],
     msg |-> RenderPercent(d.config["pre_msg"], repl_dict)]

\* post_func: the failure message at error_level when errors were detected,
\* else the success message at level.
PostLine(d, repl_dict, detected_errors) ==
    IF detected_errors
    THEN [logger |-> LoggerName(d, repl_dict), level |-> d.config["error_level"],
          msg |-> RenderPercent(d.config["post_failure_msg"], repl_dict)]
    ELSE [logger |-> LoggerName(d, repl_dict), level |-> d.config["level"],
          msg |-> RenderPercent(d.config["post_success_msg"], repl_dict)]

\* The arguments and the outcomes of the wrapped function: it returns v1 or
\* None, or raises ScriptHarnessError or another exception.
ArgsChoices == {"()", "(1,)"}
WrappedOutcomes == {"returns_v1", "returns_None", "raises_error", "raises_other"}
WrappedReturns(outcome) == IF outcome = "returns_v1" THEN "v1" ELSE "None"
WrappedRaises(outcome) ==
    CASE outcome = "raises_error" -> "ScriptHarnessError"
      [] outcome = "raises_other" -> "OtherException"
      [] OTHER -> "-"

\* The detect_error_cb calls of one decorated call whose function returned.
CbCalls(d) ==
    IF d.config["detect_error_cb"] # "None" THEN <<d.config["detect_error_cb"]>>
    ELSE <<>>

\* Mutant of FuncRaised: the exception is caught, the failure message logged
\* and ScriptHarnessFailure raised in its place.
FuncRaisedReplaced(d0, repl0, raised) ==
    [decorator |-> [d0 EXCEPT !.log = d0.log \o <<PostLine(d0, repl0, TRUE)>>],
     message |-> <<RenderFormat(d0.config["post_failure_msg"], repl0)>>,
     returned |-> "-", raised |-> "ScriptHarnessFailure", calls |-> <<>>]

\* self.func(...) raises: nothing in wrapped_func catches it.
FuncRaised(d0, repl0, raised) ==
    [decorator |-> d0, message |-> <<>>, returned |-> "-", raised |-> raised,
     calls |-> <<>>]

\* wrapped_func(args): the object afterwards, what the call raised ("-"
\* when it returned), the exception's message and the value returned.
WrappedFuncResult(d, args, outcome) ==
    LET repl0 == ReplDict(d, args)
        d0 == [d EXCEPT !.args = args, !.log = <<PreLine(d, repl0)>>]
        v == WrappedReturns(outcome)
        repl == Put(repl0, "return_value", v)
        detected == IF d.config["detect_error_cb"] # "None"
                    THEN CbVerdict(d.config["detect_error_cb"])
                    ELSE d.detected_errors
        d1 == [d0 EXCEPT !.return_value = v, !.detected_errors = detected,
                         !.log = <<PreLine(d, repl0), PostLine(d, repl, detected)>>]
    IN CASE WrappedRaises(outcome) # "-" ->
              FuncRaised(d0, repl0, WrappedRaises(outcome))
         [] detected /\ d.config["raise_on_error"] ->
              [decorator |-> d1,
               message |-> <<RenderFormat(d.config["post_failure_msg"], repl)>>,
               returned |-> "-", raised |-> "ScriptHarnessFailure",
               calls |-> CbCalls(d)]
         [] OTHER ->
              [decorator |-> d1, message |-> <<>>, returned |-> v, raised |-> "-",
               calls |-> CbCalls(d)]

\* The detect_error_cb calls as events.
CbEvents(calls, cfg) ==
    [k \in 1..Len(calls) |->
       [config |-> cfg, listener |-> calls[k], action |-> "-",
        kind |-> "detect_error_cb"]]

WrappedCall(args, outcome) ==
    /\ decorator.made /\ decorator.func # "None"
    /\ LET r == WrappedFuncResult(decorator, args, outcome)
       IN /\ decorator' = r.decorator
          /\ last' = [Call("wrapped_func", IF r.raised = "-" THEN "returned" ELSE r.raised)
                        EXCEPT !.outcome = outcome, !.message = r.message,
                               !.args = args, !.returned = r.returned]
          /\ events' = CbEvents(r.calls, config)
    /\ UNCHANGED <<globals, manager, newAction, phase, actions, listeners, config, clock>>

\* wrapped_func(args) when the function, while it runs, calls the decorated
\* function once more, with inner_args, and then does `outcome`, unless the
\* inner call raised, which ends the function with that exception.  The inner
\* call writes the same object: self.args, self.repl_dict and
\* self.return_value are the inner call's when the function comes back.
NestedResult(d, args, inner_args, inner_outcome, outcome) ==
    LET d0 == [d EXCEPT !.args = args, !.log = <<PreLine(d, ReplDict(d, args))>>]
        inner == WrappedFuncResult(d0, inner_args, inner_outcome)
        din == [inner.decorator EXCEPT !.log = d0.log \o inner.decorator.log]
        v == WrappedReturns(outcome)
        repl == Put(Put(ReplDict(d, inner_args), "return_value", inner.returned),
                    "return_value", v)
        detected == IF d.config["detect_error_cb"] # "None"
                    THEN CbVerdict(d.config["detect_error_cb"])
                    ELSE din.detected_errors
        d1 == [din EXCEPT !.return_value = v, !.detected_errors = detected,
                          !.log = din.log \o <<PostLine(d, repl, detected)>>]
    IN CASE inner.raised # "-" ->
              [decorator |-> din, message |-> inner.message, returned |-> "-",
               raised |-> inner.raised, calls |-> inner.calls,
               reached |-> FALSE]
         [] WrappedRaises(outcome) # "-" ->
              [decorator |-> din, message |-> <<>>, returned |-> "-",
               raised |-> WrappedRaises(outcome), calls |-> inner.calls,
               reached |-> TRUE]
         [] detected /\ d.config["raise_on_error"] ->
              [decorator |-> d1,
               message |-> <<RenderFormat(d.config["post_failure_msg"], repl)>>,
               returned |-> "-", raised |-> "ScriptHarnessFailure",
               calls |-> inner.calls \o CbCalls(d), reached |-> TRUE]
         [] OTHER ->
              [decorator |-> d1, message |-> <<>>, returned |-> v, raised |-> "-",
               calls |-> inner.calls \o CbCalls(d), reached |-> TRUE]

NestedCall(args, inner_args, inner_outcome, outcome) ==
    /\ decorator.made /\ decorator.func # "None"
    /\ LET r == NestedResult(decorator, args, inner_args, inner_outcome, outcome)
       IN /\ decorator' = r.decorator
          /\ last' = [Call("wrapped_func", IF r.raised = "-" THEN "returned" ELSE r.raised)
                        EXCEPT !.outcome = IF r.reached THEN outcome
                                           ELSE "inner call raised",
                               !.message = r.message,
                               !.args = args, !.returned = r.returned,
                               !.inner = inner_args]
          /\ events' = CbEvents(r.calls, config)
    /\ UNCHANGED <<globals, manager, newAction, phase, actions, listeners, config, clock>>

-----------------------------------------------------------------------------
(* Action.run *)

\* Action.run_function: the function is called with the config; its return
\* value is stored in history['return_value']; run_function itself returns
\* nothing (None).
ReturnValueOf(outcome) ==
    CASE outcome = "returns_v1" -> "v1"
      [] outcome = "returns_v2" -> "v2"
      [] OTHER -> "None"

\* What the function raises, "-" when it returns.
RaisedBy(outcome) ==
    CASE outcome = "raises_error" -> "ScriptHarnessError"
      [] outcome = "raises_fatal" -> "ScriptHarnessFatal"
      [] outcome = "raises_other" -> "OtherException"
      [] OTHER -> "-"

\* Mutant of ActionRunResult: ScriptHarnessError is handled like the fatal
\* condition, the status is set and the error raised again.
ActionRunResultErrorReraised(action, outcome, start, end) ==
    LET h0 == Put(action.history, "start_time", start)
        raised == RaisedBy(outcome)
    IN CASE raised = "ScriptHarnessError" ->
              [history |-> Put(h0, "status", STATUSES.error), raised |-> raised]
         [] raised = "ScriptHarnessFatal" ->
              [history |-> Put(h0, "status", STATUSES.fatal), raised |-> raised]
         [] raised = "OtherException" ->
              [history |-> h0, raised |-> raised]
         [] OTHER ->
              [history |->
                 Put(Put(Put(h0, "return_value", "None"),
                         "status", STATUSES.success),
                     "end_time", end),
               raised |-> "-"]

\* Mutant of ActionRunResult: the fatal condition leaves run() before the
\* status is written.
ActionRunResultNoFatalStatus(action, outcome, start, end) ==
    LET h0 == Put(action.history, "start_time", start)
        raised == RaisedBy(outcome)
    IN CASE raised = "ScriptHarnessError" ->
              [history |-> Put(Put(h0, "status", STATUSES.error), "end_time", end),
               raised |-> "-"]
         [] raised \in {"ScriptHarnessFatal", "OtherException"} ->
              [history |-> h0, raised |-> raised]
         [] OTHER ->
              [history |->
                 Put(Put(Put(h0, "return_value", "None"),
                         "status", STATUSES.success),
                     "end_time", end),
               raised |-> "-"]

\* Mutant of ActionRunResult: an exception of any other class is handled
\* like ScriptHarnessError.
ActionRunResultOtherAsError(action, outcome, start, end) ==
    LET h0 == Put(action.history, "start_time", start)
        raised == RaisedBy(outcome)
    IN CASE raised \in {"ScriptHarnessError", "OtherException"} ->
              [history |-> Put(Put(h0, "status", STATUSES.error), "end_time", end),
               raised |-> "-"]
         [] raised = "ScriptHarnessFatal" ->
              [history |-> Put(h0, "status", STATUSES.fatal), raised |-> raised]
         [] OTHER ->
              [history |->
                 Put(Put(Put(h0, "return_value", "None"),
                         "status", STATUSES.success),
                     "end_time", end),
               raised |-> "-"]

\* Action.run(config), where the function does `outcome` and time.time()
\* returns `start` and then `end`.  The result is what run() raises ("-" when
\* it returns) and the history it leaves.
ActionRunResult(action, outcome, start, end) ==
    LET h0 == Put(action.history, "start_time", start)
        raised == RaisedBy(outcome)
    IN CASE raised = "ScriptHarnessError" ->
              [history |-> Put(Put(h0, "status", STATUSES.error), "end_time", end),
               raised |-> "-"]
         [] raised = "ScriptHarnessFatal" ->
              [history |-> Put(h0, "status", STATUSES.fatal),
               raised |-> raised]
         [] raised = "OtherException" ->
              [history |-> h0, raised |-> raised]
         [] OTHER ->
              [history |->
                 Put(Put(Put(Put(h0, "return_value", ReturnValueOf(outcome)),
                             "return_value", "None"),
                         "status", STATUSES.success),
                     "end_time", end),
               raised |-> "-"]

\* A call of actions[i].run(config).
ActionRun(i, d, outcome) ==
    /\ phase \in {"actions", "script"}
    /\ i \in 1..Len(actions)
    /\ outcome \in OutcomesOf(actions[i].function)
    /\ clock + d <= MaxClock
    /\ LET r == ActionRunResult(actions[i], outcome, clock, clock + d)
       IN /\ actions' = [actions EXCEPT ![i].history = r.history]
          /\ last' = [Call("Action.run", IF r.raised = "-" THEN "returned" ELSE r.raised)
                        EXCEPT !.index = i, !.value = config, !.outcome = outcome]
    /\ events' = <<[config |-> config, listener |-> "-",
                    action |-> actions[i].name, kind |-> "function"]>>
    /\ clock' = clock + d
    /\ UNCHANGED <<globals, manager, newAction, decorator, phase, listeners, config>>

\* Time passes between calls.
Tick ==
    /\ clock < MaxClock
    /\ clock' = clock + 1
    /\ UNCHANGED <<globals, manager, newAction, decorator, phase, actions, listeners, config, events, last>>

-----------------------------------------------------------------------------
(* Script *)

\* Script.__setattr__ for the name 'config': refused when the current config
\* is true, stored otherwise.
SetAttrConfig(current, value) ==
    IF ConfigTruthy(current)
    THEN [config |-> current, result |-> "ScriptHarnessException"]
    ELSE [config |-> value, result |-> "ok"]

\* Mutant of EnabledFor: both branches of the test set enabled to True.
EnabledForAlwaysTrue(name, parsed) == TRUE

\* The enabled flag enable_actions gives an action when parsed_args.actions
\* is a list.
EnabledFor(name, parsed) == name \in parsed.names

\* Script.enable_actions(parsed_args).  With actions=None the membership
\* test of the first action raises TypeError, before any flag is written.
EnableActionsResult(acts, parsed) ==
    IF ~parsed.has \/ Len(acts) = 0
    THEN [actions |-> acts, result |-> "ok"]
    ELSE IF parsed.isNone
    THEN [actions |-> acts, result |-> "TypeError"]
    ELSE [actions |-> [i \in 1..Len(acts) |->
                         [acts[i] EXCEPT !.enabled = EnabledFor(acts[i].name, parsed)]],
          result |-> "ok"]

\* The listeners mapping Script.__init__ creates: an empty list per timing.
NewListeners ==
    [t \in {VALID_LISTENER_TIMING[i] : i \in 1..Len(VALID_LISTENER_TIMING)} |-> <<>>]

\* Script.__init__(actions, parser, ...) with build_config: parse_known_args
\* gives (parsed_args, unknown_args), the config collaborator gives `built`.
ScriptInitResult(acts, parsed, unknown, built) ==
    IF unknown
    THEN [actions |-> acts, config |-> NoneConfig, result |-> "ScriptHarnessFatal"]
    ELSE LET set == SetAttrConfig(NoneConfig, built)
             en == EnableActionsResult(acts, parsed)
         IN IF set.result # "ok"
            THEN [actions |-> acts, config |-> set.config, result |-> set.result]
            ELSE [actions |-> en.actions, config |-> set.config, result |-> en.result]

ScriptInit(parsed, unknown, built) ==
    /\ phase = "actions"
    /\ LET r == ScriptInitResult(actions, parsed, unknown, built)
       IN /\ actions' = r.actions
          /\ config' = r.config
          /\ phase' = IF r.result = "ok" THEN "script" ELSE "failed"
          /\ last' = [Call("Script.__init__", r.result)
                        EXCEPT !.parsed = parsed, !.value = built]
    /\ listeners' = NewListeners
    /\ events' = <<>>
    /\ UNCHANGED <<globals, manager, newAction, decorator, clock>>

\* script.config = value
SetConfig(value) ==
    /\ phase = "script"
    /\ LET r == SetAttrConfig(config, value)
       IN /\ config' = r.config
          /\ last' = [Call("Script.config=", r.result) EXCEPT !.value = value]
    /\ events' = <<>>
    /\ UNCHANGED <<globals, manager, newAction, decorator, phase, actions, listeners, clock>>

\* script.enable_actions(parsed_args)
EnableActions(parsed) ==
    /\ phase = "script"
    /\ LET r == EnableActionsResult(actions, parsed)
       IN /\ actions' = r.actions
          /\ last' = [Call("Script.enable_actions", r.result) EXCEPT !.parsed = parsed]
    /\ events' = <<>>
    /\ UNCHANGED <<globals, manager, newAction, decorator, phase, listeners, config, clock>>

-----------------------------------------------------------------------------
(* Script.add_listener *)

\* Mutant of AppendListener: a callback already in the list is not added again.
AppendListenerOnce(ls, listener, timing, action_names) ==
    IF \E k \in 1..Len(ls[timing]) : ls[timing][k][1] = listener
    THEN ls
    ELSE [ls EXCEPT ![timing] = Append(@, <<listener, action_names>>)]

\* The list of a timing after self.listeners[timing].append((listener, action_names)).
AppendListener(ls, listener, timing, action_names) ==
    [ls EXCEPT ![timing] = Append(@, <<listener, action_names>>)]

\* Script.add_listener(listener, timing, action_names).  Both error messages
\* and the debug log line read listener.__qualname__ before anything else
\* happens, so a listener without that attribute ends every path with
\* AttributeError.
AddListenerResult(ls, listener, timing, action_names) ==
    IF ~HasQualname(listener)
    THEN [listeners |-> ls, result |-> "AttributeError"]
    ELSE IF ~InTuple(timing, VALID_LISTENER_TIMING)
    THEN [listeners |-> ls, result |-> "ScriptHarnessException"]
    ELSE IF NamesTruthy(action_names) /\ ~ContainsAction(timing)
    THEN [listeners |-> ls, result |-> "ScriptHarnessException"]
    ELSE [listeners |-> AppendListener(ls, listener, timing, action_names),
          result |-> "ok"]

\* Number of registrations in the registry.
RECURSIVE SumLen(_, _)
SumLen(ls, ts) ==
    IF ts = {} THEN 0
    ELSE LET t == CHOOSE x \in ts : TRUE
         IN Len(ls[t]) + SumLen(ls, ts \ {t})
Registered(ls) == SumLen(ls, DOMAIN ls)

AddListener(listener, timing, action_names) ==
    /\ phase = "script"
    /\ Registered(listeners) < MaxListeners
    /\ LET r == AddListenerResult(listeners, listener, timing, action_names)
       IN /\ listeners' = r.listeners
          /\ last' = [Call("Script.add_listener", r.result)
                        EXCEPT !.listener = listener, !.timing = timing,
                               !.names = action_names]
    /\ events' = <<>>
    /\ UNCHANGED <<globals, manager, newAction, decorator, phase, actions, config, clock>>

-----------------------------------------------------------------------------
(* Script.run *)

\* Script.run(): the body is `pass`; it invokes nothing, changes nothing and
\* returns None.
ScriptRunResult(acts, ls, cfg) ==
    [actions |-> acts, events |-> <<>>, result |-> "returned"]

Run ==
    /\ phase = "script"
    /\ LET r == ScriptRunResult(actions, listeners, config)
       IN /\ actions' = r.actions
          /\ events' = r.events
          /\ last' = Call("Script.run", r.result)
    /\ UNCHANGED <<globals, manager, newAction, decorator, phase, listeners, config, clock>>

-----------------------------------------------------------------------------------------------------------------------------------------------------
(* The specifications.                                                     *)
(*                                                                         *)
(* Spec explores construction, action selection and the config slot over   *)
(* all their inputs, with few listener registrations.  SpecListeners       *)
(* explores the listener registry over all its inputs, on scripts built    *)
(* from few construction inputs.  Script.run() never calls Action.run(),   *)
(* so direct calls of Action.run() are explored apart, in SpecAction.      *)
(***************************************************************************)

\* The narrow input sets of the specifications.
FewTimings == {"pre_action", "mid_run"}
NoCall == Call("-", "-")

Init ==
    /\ globals \in GlobalsChoices
    /\ phase = "start"
    /\ actions = <<>>
    /\ listeners = EmptyMapping
    /\ config = NoneConfig
    /\ clock = 0
    /\ events = <<>>
    /\ last = NoCall
    /\ newAction = NoAction
    /\ decorator = NoLogMethod
    /\ manager = NewScriptManager

Next ==
    \/ \E a \in AllActionsChoices, d \in DefaultActionsChoices :
          GetActionsFromLists(a, d)
    \/ \E p \in ParsedArgsChoices, u \in BOOLEAN, c \in ConfigChoices :
          ScriptInit(p, u, c)
    \/ \E c \in AssignedChoices : SetConfig(c)
    \/ \E p \in ParsedArgsChoices : EnableActions(p)
    \/ \E t \in FewTimings : AddListener("f", t, NoNames)
    \/ Run

Spec == Init /\ [][Next]_vars

InitListeners ==
    /\ Init
    /\ globals["B"] \in {"raises_error", "raises_fatal"}

NextListeners ==
    \/ GetActionsFromLists(ActionNames, Names)
    \/ ScriptInit(NoActionsAttr, FALSE, VerboseConfig)
    \/ SetConfig(EmptyConfig)
    \/ EnableActions(OnlyAC)
    \/ \E l \in Callbacks, t \in Timings, an \in ActionNamesChoices :
          AddListener(l, t, an)
    \/ Run

SpecListeners == InitListeners /\ [][NextListeners]_vars

\* The actions SpecAction runs: A, which returns v1, and B, which varies.
RunIndexes == 1..2

InitAction ==
    /\ Init
    /\ globals["B"] = "varies"

NextAction ==
    \/ GetActionsFromLists(ActionNames, Names)
    \/ ScriptInit(NoActionsAttr, FALSE, VerboseConfig)
    \/ \E i \in RunIndexes, d \in 0..1, o \in Outcomes : ActionRun(i, d, o)
    \/ Tick

SpecAction == InitAction /\ [][NextAction]_vars

\* Actions constructed on their own, and a LogMethod decorator.
InitObjects ==
    /\ Init
    /\ globals["B"] = "returns_v1"

NextObjects ==
    \/ \E n \in ConstructNames, f \in ExplicitFunctions, o \in BOOLEAN, e \in BOOLEAN :
          ActionInit(n, f, o, e)

SpecObjects == InitObjects /\ [][NextObjects]_vars

\* What the function does in the inner and in the outer call of a nested
\* call.
InnerOutcomes == {"returns_None", "raises_other"}
OuterOutcomes == {"returns_v1", "raises_error"}

\* A behaviour of SpecLog follows one decorator from its construction.
NextLog ==
    \/ last = NoCall /\ \E kw \in KwargsChoices : LogMethodInit(kw)
    \/ Decorate
    \/ \E a \in ArgsChoices, o \in WrappedOutcomes : WrappedCall(a, o)
    \/ \E a \in ArgsChoices, ia \in ArgsChoices, io \in InnerOutcomes,
          o \in OuterOutcomes : NestedCall(a, ia, io, o)

SpecLog == InitObjects /\ [][NextLog]_vars

NextManager ==
    \/ \E n \in ScriptNames, p \in BOOLEAN, c \in BOOLEAN : ManagerGetScript(n, p, c)
    \/ \E n \in ScriptNames, p \in BOOLEAN, c \in BOOLEAN : GetScript(n, p, c)
    \/ \E c \in ScriptClasses : SetScriptClass(c)

SpecManager == InitObjects /\ [][NextManager]_vars

-----------------------------------------------------------------------------
(* What the claims say Script.run() invokes.                               *)

Ev(kind, action, listener) ==
    [config |-> config, listener |-> listener, action |-> action, kind |-> kind]

\* A registration applies to an action when it has no filter or its filter
\* holds the action's name.
Matches(entry, name) == entry[2].isNone \/ name \in entry[2].names

\* The listeners of a run-level timing, each invoked once, in list order.
RunLevel(timing) ==
    [k \in 1..Len(listeners[timing]) |-> Ev(timing, "-", listeners[timing][k][1])]

\* The listeners of an action-level timing that apply to the action, in list order.
RECURSIVE ActionLevelFrom(_, _, _)
ActionLevelFrom(timing, name, k) ==
    IF k > Len(listeners[timing]) THEN <<>>
    ELSE (IF Matches(listeners[timing][k], name)
          THEN <<Ev(timing, name, listeners[timing][k][1])>> ELSE <<>>)
         \o ActionLevelFrom(timing, name, k + 1)
ActionLevel(timing, name) == ActionLevelFrom(timing, name, 1)

\* An action that runs to its post_action listeners.
Around(name) ==
    ActionLevel("pre_action", name) \o <<Ev("function", name, "-")>>
        \o ActionLevel("post_action", name)

\* The events of the most recent call that are of one timing (and one action).
EventsOf(timing, name) ==
    SelectSeq(events, LAMBDA e : e.kind = timing /\ e.action = name)

AllEnabled == \A i \in 1..Len(actions) : actions[i].enabled
RunEnded == phase = "script" /\ last.op = "Script.run"
NotRun(i) == "status" \notin DOMAIN actions[i].history
HasStatus(i, status) == ~NotRun(i) /\ actions[i].history["status"] = status

-----------------------------------------------------------------------------
(* The claims. *)

\* C1: with actions [A, B, C] all enabled and B's function raising the fatal
\* condition, Script.run() invokes the pre_run listeners, pre_action(A), A,
\* post_action(A), pre_action(B), B (status FATAL, end_time recorded) and the
\* post_fatal listeners, in this order and nothing else, and the fatal
\* condition leaves run().
C1_FatalRunOrder ==
    (RunEnded /\ Len(actions) = 3 /\ AllEnabled
       /\ actions[2].function = "raises_fatal")
    => /\ events = RunLevel("pre_run") \o Around("A")
                     \o ActionLevel("pre_action", "B") \o <<Ev("function", "B", "-")>>
                     \o RunLevel("post_fatal")
       /\ last.result = "ScriptHarnessFatal"
       /\ HasStatus(2, STATUSES.fatal)
       /\ "end_time" \in DOMAIN actions[2].history

\* C2: with actions [A, B, C] all enabled and B's function raising the
\* recoverable error, Script.run() runs A, B and C in this order, each between
\* its pre_action and post_action listeners, B's status ends as ERROR, and the
\* post_run listeners come last; run() returns.
C2_ErrorRunContinues ==
    (RunEnded /\ Len(actions) = 3 /\ AllEnabled
       /\ actions[2].function = "raises_error")
    => /\ events = RunLevel("pre_run") \o Around("A") \o Around("B") \o Around("C")
                     \o RunLevel("post_run")
       /\ last.result = "returned"
       /\ HasStatus(2, STATUSES.error)

\* C3: when Script.run() ends, an action that was disabled has not had its
\* function or any pre_action or post_action listener invoked and its status
\* is still "not run", while every enabled action's function was invoked (no
\* function raises the fatal condition here).
C3_DisabledSkipped ==
    (RunEnded /\ \A j \in 1..Len(actions) : actions[j].function # "raises_fatal")
    => \A i \in 1..Len(actions) :
          IF actions[i].enabled
          THEN Len(EventsOf("function", actions[i].name)) = 1
          ELSE /\ \A k \in 1..Len(events) : events[k].action # actions[i].name
               /\ NotRun(i)

\* C4: in every Script.run() the listeners of a timing are invoked in the
\* order add_listener registered them, a listener registered twice being
\* invoked twice (stated for pre_run, which every run reaches).
C4_DispatchInRegistrationOrder ==
    RunEnded =>
        [k \in 1..Len(EventsOf("pre_run", "-")) |-> EventsOf("pre_run", "-")[k].listener]
          = [k \in 1..Len(listeners["pre_run"]) |-> listeners["pre_run"][k][1]]

\* C5: for the first enabled action, which every Script.run() reaches, a
\* callback is invoked as pre_action listener of that action if and only if it
\* is registered for pre_action with no filter or with a filter that holds the
\* action's name.
C5_FilteredDispatch ==
    RunEnded =>
        \A i \in 1..Len(actions) :
            (actions[i].enabled /\ \A j \in 1..(i - 1) : ~actions[j].enabled)
            => \A cb \in Callbacks :
                  (\E k \in 1..Len(events) :
                       events[k] = Ev("pre_action", actions[i].name, cb))
                  <=> (\E k \in 1..Len(listeners["pre_action"]) :
                          /\ listeners["pre_action"][k][1] = cb
                          /\ Matches(listeners["pre_action"][k], actions[i].name))

\* C6: add_listener with a valid timing and no action-name filter succeeds;
\* with any other timing it fails with ScriptHarnessException and leaves every
\* listener list as it was.
C6_TimingValidated ==
    [][last'.op = "Script.add_listener"
         => /\ (InTuple(last'.timing, VALID_LISTENER_TIMING) /\ last'.names.isNone)
                 => last'.result = "ok"
            /\ ~InTuple(last'.timing, VALID_LISTENER_TIMING)
                 => (last'.result = "ScriptHarnessException" /\ listeners' = listeners)
      ]_vars

\* C7: add_listener with a non-empty action-name filter fails with
\* ScriptHarnessException and registers nothing when the timing is pre_run,
\* post_run or post_fatal; it succeeds and stores the filter with the callback
\* when the timing is pre_action or post_action.
C7_FilterOnlyForActionTimings ==
    [][(last'.op = "Script.add_listener" /\ NamesTruthy(last'.names))
         => /\ last'.timing \in {"pre_run", "post_run", "post_fatal"}
                 => (last'.result = "ScriptHarnessException" /\ listeners' = listeners)
            /\ last'.timing \in {"pre_action", "post_action"}
                 => /\ last'.result = "ok"
                    /\ Len(listeners'[last'.timing]) = Len(listeners[last'.timing]) + 1
                    /\ listeners'[last'.timing][Len(listeners'[last'.timing])]
                         = <<last'.listener, last'.names>>
      ]_vars

\* C8: a successful add_listener call appends exactly its (callback, filter)
\* pair to the end of the list of its own timing, duplicates included, and
\* leaves the other lists as they were; a failing call and every other
\* operation on the Script leave all the lists as they were (construction
\* starts them empty).
C8_RegistryAppendOnly ==
    [][IF last'.op = "Script.add_listener" /\ last'.result = "ok"
       THEN /\ DOMAIN listeners' = DOMAIN listeners
            /\ \A t \in DOMAIN listeners :
                  listeners'[t] =
                     IF t = last'.timing
                     THEN listeners[t] \o << <<last'.listener, last'.names>> >>
                     ELSE listeners[t]
       ELSE IF last'.op = "Script.__init__"
       THEN \A t \in DOMAIN listeners' : listeners'[t] = <<>>
       ELSE listeners' = listeners
      ]_vars

\* C8 witness: after a call that failed, a callback registered twice for one
\* timing, with different filters, is in that list twice, in call order.
C8_Witness ==
    /\ phase = "script"
    /\ last.op = "Script.config=" /\ last.result = "ScriptHarnessException"
    /\ Len(listeners["pre_action"]) = 2
    /\ listeners["pre_action"][1][2] = NoNames
    /\ listeners["pre_action"][1][1] = listeners["pre_action"][2][1]
    /\ listeners["pre_action"][1][2] # listeners["pre_action"][2][2]

\* C9: once the Script is constructed, every assignment to its config
\* attribute fails with ScriptHarnessException and leaves the config as it
\* was, whatever config construction produced.
C9_ConfigWriteOnce ==
    [][last'.op = "Script.config="
         => (last'.result = "ScriptHarnessException" /\ config' = config)]_vars

\* C10: when parsed_args.actions names a subset of the actions, after
\* Script construction each action is enabled if and only if its name is in
\* that subset, whatever enabled value it was constructed with.
C10_ExplicitSelection ==
    (last.op = "Script.__init__" /\ last.result = "ok"
       /\ last.parsed.has /\ ~last.parsed.isNone)
    => \A i \in 1..Len(actions) :
          actions[i].enabled <=> actions[i].name \in last.parsed.names

\* C10 witness: a Script constructed with --actions B has only B enabled.
C10_Witness ==
    /\ last.op = "Script.__init__" /\ last.result = "ok"
    /\ last.parsed.has /\ last.parsed.names = {"B"}
    /\ Len(actions) = 3
    /\ \A i \in 1..Len(actions) : actions[i].enabled <=> actions[i].name = "B"

\* C11: when parsed_args names no explicit subset, whether it has no
\* `actions` attribute or has actions=None (--actions not passed), Script
\* construction completes and every action keeps the enabled value it was
\* constructed with (unknown arguments, which end construction with the fatal
\* condition, aside).
C11_NoSelectionKeepsDefaults ==
    [][(last'.op = "Script.__init__" /\ last'.result # "ScriptHarnessFatal"
          /\ (~last'.parsed.has \/ last'.parsed.isNone))
         => (last'.result = "ok" /\ actions' = actions)]_vars

-----------------------------------------------------------------------------
(* Claims about Action.run, on the action the most recent call ran. *)

RanAction == last.op = "Action.run"
Ran == actions[last.index].history
Returns == {"returns_v1", "returns_v2", "returns_None"}

\* C12: when the function raises the fatal condition, the fatal condition
\* leaves Action.run() with the status FATAL and with an end_time recorded
\* that is not earlier than this run's start_time.
C12_FatalRecordsEndTime ==
    (RanAction /\ last.outcome = "raises_fatal")
    => /\ last.result = "ScriptHarnessFatal"
       /\ HasStatus(last.index, STATUSES.fatal)
       /\ "end_time" \in DOMAIN Ran
       /\ Ran["end_time"] >= Ran["start_time"]

\* C13: when the function raises ScriptHarnessError, Action.run() returns
\* normally, with the status ERROR and an end_time recorded (between this
\* run's start_time and now).
C13_ErrorSwallowed ==
    (RanAction /\ last.outcome = "raises_error")
    => /\ last.result = "returned"
       /\ HasStatus(last.index, STATUSES.error)
       /\ "end_time" \in DOMAIN Ran
       /\ Ran["start_time"] <= Ran["end_time"] /\ Ran["end_time"] <= clock

\* C13 witness: a run that raised ScriptHarnessError has returned, on an
\* action that an earlier run had left with a return_value, at a later time.
C13_Witness ==
    /\ RanAction /\ last.outcome = "raises_error" /\ last.result = "returned"
    /\ "return_value" \in DOMAIN Ran
    /\ Ran["start_time"] > 0

\* C14: when the function returns v, after Action.run(config) the status is
\* SUCCESS and history's return_value is v, and the function was invoked
\* exactly once, with the config.
C14_ReturnValueStored ==
    (RanAction /\ last.outcome \in Returns)
    => /\ HasStatus(last.index, STATUSES.success)
       /\ "return_value" \in DOMAIN Ran
       /\ Ran["return_value"] = (CASE last.outcome = "returns_v1" -> "v1"
                                   [] last.outcome = "returns_v2" -> "v2"
                                   [] OTHER -> "None")
       /\ events = <<Ev("function", actions[last.index].name, "-")>>

\* C15: SUCCESS, ERROR and FATAL are pairwise distinct; an action that has
\* never been run has no status; after a run whose function returned, raised
\* ScriptHarnessError or raised the fatal condition, the status is SUCCESS,
\* ERROR or FATAL respectively.
C15_StatusTaxonomy ==
    /\ STATUSES.success # STATUSES.error
    /\ STATUSES.success # STATUSES.fatal
    /\ STATUSES.error # STATUSES.fatal
    /\ \A i \in 1..Len(actions) :
          "start_time" \notin DOMAIN actions[i].history => NotRun(i)
    /\ RanAction =>
          /\ last.outcome \in Returns => HasStatus(last.index, STATUSES.success)
          /\ last.outcome = "raises_error" => HasStatus(last.index, STATUSES.error)
          /\ last.outcome = "raises_fatal" => HasStatus(last.index, STATUSES.fatal)

\* C15 witness: a run that raised the fatal condition left FATAL on an action
\* that an earlier run had completed, while another action has never run.
C15_Witness ==
    /\ RanAction /\ last.outcome = "raises_fatal"
    /\ HasStatus(last.index, STATUSES.fatal)
    /\ "end_time" \in DOMAIN Ran
    /\ \E i \in 1..Len(actions) : NotRun(i)

\* C16: after a run() (whose function returned, raised ScriptHarnessError or
\* raised the fatal condition) the history describes that run only: an
\* end_time is not earlier than the start_time, and there is a return_value
\* only when the function returned.
C16_HistoryOverwritten ==
    (RanAction /\ last.outcome # "raises_other")
    => /\ "end_time" \in DOMAIN Ran => Ran["end_time"] >= Ran["start_time"]
       /\ "return_value" \in DOMAIN Ran => last.outcome \in Returns

-----------------------------------------------------------------------------
(* Claims about the actions sequence of a Script. *)

NameSeq(acts) == [i \in 1..Len(acts) |-> acts[i].name]

\* C17: get_actions_from_lists builds one action per name of all_actions, in
\* the order of all_actions; every later operation (Script construction,
\* enable_actions, config assignment, add_listener, run) leaves the names of
\* the actions sequence, and so its membership and order, as they were.
C17_OrderFixedAtConstruction ==
    [][/\ (last'.op = "get_actions_from_lists" /\ last'.result = "ok")
            => NameSeq(actions') = last'.all_actions
       /\ last'.op # "get_actions_from_lists"
            => NameSeq(actions') = NameSeq(actions)]_vars

\* C17 witness: a Script whose actions were built from all_actions C, A, B
\* has had B alone selected, and the sequence is still C, A, B.
C17_Witness ==
    /\ last.op = "Script.enable_actions" /\ last.result = "ok"
    /\ last.parsed.has /\ last.parsed.names = {"B"}
    /\ NameSeq(actions) = ActionNamesRotated
    /\ actions[3].enabled /\ ~actions[1].enabled

-----------------------------------------------------------------------------
(* Claims about Action construction. *)

\* The action names with underscores for hyphens.
Underscored(name) ==
    CASE name = "do-it" -> "do_it"
      [] name = "a-b-c" -> "a_b_c"
      [] name = "no-such" -> "no_such"
      [] OTHER -> name

GlobalFor(name) ==
    IF Underscored(name) \in DOMAIN globals THEN globals[Underscored(name)]
    ELSE "None"

\* C18: Action(name, function, enabled) with an explicit callable succeeds
\* and uses it; with no function it uses the global found under the name with
\* hyphens replaced by underscores, when that is callable; when neither the
\* argument nor the lookup gives a callable it fails with
\* ScriptHarnessException and there is no Action.  A constructed Action has a
\* callable function, the name given, a history that records nothing, and the
\* enabled value passed, false when it was left out.
C18_ConstructionNeedsCallable ==
    last.op = "Action.__init__"
    => /\ last.result \in {"ok", "ScriptHarnessException"}
       /\ Callable(last.function)
            => last.result = "ok" /\ newAction.function = last.function
       /\ (last.function = "None" /\ Callable(GlobalFor(last.name)))
            => last.result = "ok" /\ newAction.function = GlobalFor(last.name)
       /\ (~Callable(last.function) /\ ~Callable(GlobalFor(last.name)))
            => last.result = "ScriptHarnessException"
       /\ last.result = "ScriptHarnessException" => newAction = NoAction
       /\ last.result = "ok"
            => /\ Callable(newAction.function)
               /\ newAction.name = last.name
               /\ newAction.history = EmptyMapping
               /\ newAction.enabled = (~last.omitted /\ last.enabled)

\* C18 witness: Action("a-b-c", enabled=True) was constructed with the
\* function the globals hold under a_b_c.
C18_Witness ==
    /\ last.op = "Action.__init__" /\ last.result = "ok"
    /\ last.name = "a-b-c" /\ last.function = "None"
    /\ newAction.function = globals["a_b_c"]
    /\ newAction.enabled

-----------------------------------------------------------------------------
(* Claims about LogMethod. *)

Constructed == last.op = "LogMethod.__init__"
UnknownGiven ==
    {last.kwargs[i][1] : i \in {j \in 1..Len(last.kwargs) :
                                  last.kwargs[j][1] \notin RecognizedKeys}}
BadCallbackGiven ==
    \E i \in 1..Len(last.kwargs) :
       /\ last.kwargs[i][1] = "detect_error_cb"
       /\ last.kwargs[i][2] \notin ErrorCallbacks \cup {"None"}
MessageLines == {last.message[j] : j \in 1..Len(last.message)}

\* C19: LogMethod(kwargs) with keys outside the recognized set fails with
\* ScriptHarnessException, whose message has a line naming each unknown key;
\* with a detect_error_cb that is neither None nor callable it fails too, the
\* message saying so; with both faults the one exception has all these lines
\* and no others.  No decorator object is left.
C19_AllFaultsReported ==
    (Constructed /\ (UnknownGiven # {} \/ BadCallbackGiven))
    => /\ last.result = "ScriptHarnessException"
       /\ ~decorator.made
       /\ \A key \in UnknownGiven :
             ("Unknown key " \o key \o " in kwargs!") \in MessageLines
       /\ BadCallbackGiven => "detect_error_cb not callable!" \in MessageLines
       /\ Len(last.message) =
             Cardinality(UnknownGiven) + (IF BadCallbackGiven THEN 1 ELSE 0)

\* C19 witness: LogMethod(foo=.., bar=.., detect_error_cb='a string') has
\* failed with a message of three lines.
C19_Witness ==
    /\ Constructed /\ last.result = "ScriptHarnessException"
    /\ UnknownGiven = {"foo", "bar"} /\ BadCallbackGiven
    /\ Len(last.message) = 3

WrappedReturned ==
    /\ last.op = "wrapped_func" /\ last.inner = "-"
    /\ last.outcome \in {"returns_v1", "returns_None"}
ReturnedValue == IF last.outcome = "returns_v1" THEN "v1" ELSE "None"

\* C20: for a decorated call whose function returns v.  When detect_error_cb
\* returns true the failure message is logged at error_level, after the
\* pre-call line, and then with raise_on_error the call raises
\* ScriptHarnessFailure carrying the failure message as it was rendered for
\* the log, and without raise_on_error it returns v.  When detect_error_cb is
\* None or returns false the success message is logged at level and the call
\* returns v.
C20_FailureRaisedAfterLogging ==
    WrappedReturned
    => LET cfg == decorator.config
           repl == Put(ReplDict(decorator, last.args), "return_value", ReturnedValue)
       IN /\ Len(decorator.log) = 2
          /\ IF cfg["detect_error_cb"] = "cb_true"
             THEN /\ decorator.log[2].level = cfg["error_level"]
                  /\ decorator.log[2].msg = RenderPercent(cfg["post_failure_msg"], repl)
                  /\ IF cfg["raise_on_error"]
                     THEN /\ last.result = "ScriptHarnessFailure"
                          /\ last.message = <<decorator.log[2].msg>>
                     ELSE last.result = "returned" /\ last.returned = ReturnedValue
             ELSE /\ decorator.log[2].level = cfg["level"]
                  /\ decorator.log[2].msg = RenderPercent(cfg["post_success_msg"], repl)
                  /\ last.result = "returned" /\ last.returned = ReturnedValue

-----------------------------------------------------------------------------
(* Claims about exceptions Action.run does not handle. *)

KeptKeys == {"status", "return_value", "end_time"}

\* C24: when the function raises an exception that is neither
\* ScriptHarnessError nor ScriptHarnessFatal, Action.run() raises that
\* exception and, start_time aside, leaves every history as it was: status,
\* return_value and end_time are present exactly when they were before the
\* run, with the values they had; start_time is set.
C24_OtherExceptionPropagates ==
    [][(last'.op = "Action.run" /\ last'.outcome = "raises_other")
         => /\ last'.result = "OtherException"
            /\ Len(actions') = Len(actions)
            /\ "start_time" \in DOMAIN actions'[last'.index].history
            /\ \A i \in 1..Len(actions) : \A key \in KeptKeys :
                  /\ key \in DOMAIN actions'[i].history
                        <=> key \in DOMAIN actions[i].history
                  /\ key \in DOMAIN actions[i].history
                        => actions'[i].history[key] = actions[i].history[key]]_vars

\* C24 witness: a run that raised another exception started after the end of
\* an earlier, completed run of the same action, whose status, return_value
\* and end_time are still there.
C24_Witness ==
    /\ RanAction /\ last.outcome = "raises_other" /\ last.result = "OtherException"
    /\ KeptKeys \subseteq DOMAIN Ran
    /\ Ran["start_time"] > Ran["end_time"]

-----------------------------------------------------------------------------
(* Claims about exceptions and nesting in decorated calls. *)

FunctionRaised ==
    /\ last.op = "wrapped_func" /\ last.inner = "-"
    /\ last.outcome \in {"raises_error", "raises_other"}

\* C22: when the wrapped function raises, the decorated call raises that same
\* exception (with no message of the decorator's): the pre-call message has
\* been logged, at level, and nothing after it, neither the success nor the
\* failure message; detect_error_cb was not invoked.
C22_FunctionExceptionPropagates ==
    FunctionRaised
    => /\ last.result = (IF last.outcome = "raises_error"
                         THEN "ScriptHarnessError" ELSE "OtherException")
       /\ last.message = <<>>
       /\ Len(decorator.log) = 1
       /\ decorator.log[1].level = decorator.config["level"]
       /\ decorator.log[1].msg =
             RenderPercent(decorator.config["pre_msg"],
                           ReplDict(decorator, last.args))
       /\ events = <<>>

\* C22 witness: the function raised under a decorator that has a
\* detect_error_cb returning true and raise_on_error set.
C22_Witness ==
    /\ FunctionRaised /\ last.result = "OtherException"
    /\ decorator.config["detect_error_cb"] = "cb_true"
    /\ decorator.config["raise_on_error"]

\* C23: the post message of a decorated call whose function returned, nested
\* call inside it or not, is the success or failure template rendered with
\* the call's own metadata: the function name, the args this call was given
\* and the value this call's function returned.
C23_OwnMetadata ==
    (last.op = "wrapped_func" /\ last.outcome \in {"returns_v1", "returns_None"})
    => LET own == Put(ReplDict(decorator, last.args), "return_value", ReturnedValue)
           post == decorator.log[Len(decorator.log)]
       IN /\ Len(decorator.log) >= 2
          /\ post.msg =
               RenderPercent(IF decorator.detected_errors
                             THEN decorator.config["post_failure_msg"]
                             ELSE decorator.config["post_success_msg"], own)

-----------------------------------------------------------------------------
(* Claims about the script manager. *)

GetScriptCalled(l) == l.op \in {"ScriptManager.get_script", "get_script"}

\* C21: the manager keeps at most one script per name.  A get_script(name)
\* for a known name, whatever its arguments and whatever class was set in
\* between, returns the script stored under the name and changes nothing; a
\* script is created only by a get_script for an unknown name, as an object
\* of the class then set, distinct from the scripts there are;
\* set_script_class changes no script; no call replaces or removes a script.
C21_OneScriptPerName ==
    [][/\ \A n \in DOMAIN manager.all_scripts :
             /\ n \in DOMAIN manager'.all_scripts
             /\ manager'.all_scripts[n] = manager.all_scripts[n]
       /\ (GetScriptCalled(last') /\ last'.name \in DOMAIN manager.all_scripts)
            => /\ last'.result = "returned"
               /\ last'.script = manager.all_scripts[last'.name].id
               /\ manager' = manager
       /\ \A n \in DOMAIN manager'.all_scripts \ DOMAIN manager.all_scripts :
             /\ GetScriptCalled(last') /\ last'.name = n
             /\ last'.result = "returned"
             /\ last'.script = manager'.all_scripts[n].id
             /\ manager'.all_scripts[n].class = manager.script_class
             /\ \A k \in DOMAIN manager.all_scripts :
                   manager.all_scripts[k].id # manager'.all_scripts[n].id
       /\ last'.op = "set_script_class"
            => manager'.all_scripts = manager.all_scripts]_vars

====
